---- MODULE Spec2Model ----
(***************************************************************************)
(* Wallet ledger, campaign funding, job payout, manual review and          *)
(* withdrawal lifecycle of the engagement marketplace backend.             *)
(*                                                                         *)
(* Conventions of the model                                                *)
(*  - The database is the shared state (balance, ledger, campaign, job,    *)
(*    attempt, review, wd, rule, session).  Money is counted in whole      *)
(*    units, confidences and thresholds in hundredths.  run is the result  *)
(*    the verification pipeline last returned, fraud the fraud record of   *)
(*    an attempt, overdue whether a session has outlived its rule timeout. *)
(*  - A request handler that first loads model instances (request.user,    *)
(*    get_object(), a service argument) and later writes them back is two  *)
(*    steps of one worker process: Load takes the in-memory copies, the    *)
(*    handler's Commit action runs the rest of the handler against those   *)
(*    copies and the database.  Django's save() writes every field of the  *)
(*    in-memory instance.  Related objects reached lazily inside the       *)
(*    handler body (attempt.earner, campaign.promoter) are read fresh.     *)
(*  - models.transaction.atomic() + select_for_update() in                 *)
(*    WalletTransaction.create_transaction is one atomic step that         *)
(*    re-reads the user row.                                               *)
(***************************************************************************)
EXTENDS Integers, Sequences, FiniteSets, TLC

\* ---------------------------------------------------------------- bounds
\* ledger length explored by SpecLedger / by Spec and SpecWithdrawal
MaxLedger == 3
MaxMarketLedger == 4
\* wallet balances at the start
PromoterStart == 3
EarnerStart == 2

Procs == {"w1", "w2"}
Users == {"promoter", "earner"}
\* users with the earner role (the second one holds no wallet in the model)
Earners == {"earner", "earner2"}
Jobs == {"j1"}
Withdrawals == {"wd1", "wd2"}

VARIABLES balance, ledger, campaign, job, attempt, review, wd, req, res,
          rule, session, run, fraud, overdue

vars == <<balance, ledger, campaign, job, attempt, review, wd, req, res,
          rule, session, run, fraud, overdue>>

\* ------------------------------------------------------------ data model
\* jobs/models.py Job.verify: fields the caller leaves out of
\* WalletTransaction.objects.create()
NULL == -1000

\* campaigns: total_budget, price_per_action (Campaign fields, fixed at creation)
total_budget == 3
price_per_action == 1

\* Job.reward_amount = campaign.price_per_action (Campaign.create_jobs)
reward_amount == price_per_action

Entry(u, ttype, amount, before, after, ref) ==
    [user |-> u, transaction_type |-> ttype, amount |-> amount,
     balance_before |-> before, balance_after |-> after, reference |-> ref]

Idle == [op |-> "idle", user |-> "none", arg |-> "none", amount |-> 0,
         ubal |-> 0, ostatus |-> "none", cstatus |-> "none", cres |-> 0,
         earner |-> "none"]

\* rule: the VerificationRule row of the campaign's platform and engagement
\* type (unique_together), DefaultRule: the row at the start
DefaultRule == [exists |-> TRUE,
                verification_methods |-> <<"deterministic", "ml">>,
                pass_threshold |-> 80, manual_review_threshold |-> 50,
                fail_threshold |-> 30]
\* no row
NoRule == [exists |-> FALSE, verification_methods |-> <<>>,
           pass_threshold |-> 0, manual_review_threshold |-> 0,
           fail_threshold |-> 0]
\* run: the dictionary _run_verification_pipeline returns in a step; NoRun in
\* every other step
NoRun == [outs |-> <<>>, total |-> 0, n |-> 0, last |-> 0, status |-> "none",
          rule |-> DefaultRule]

\* entries of one user, in creation order
RECURSIVE EntriesOf(_, _)
EntriesOf(led, u) ==
    IF led = <<>> THEN <<>>
    ELSE IF Head(led).user = u THEN <<Head(led)>> \o EntriesOf(Tail(led), u)
         ELSE EntriesOf(Tail(led), u)

EntriesWithRef(led, ref) == {i \in 1..Len(led) : led[i].reference = ref}

\* ------------------------------------------- WalletTransaction.create_transaction
\* the balance the call works from: the row re-read under the lock, not the
\* caller's in-memory user
StaleBalance(bal, u, mem) == mem
LockedBalance(bal, u, mem) == bal[u]

NoInsufficientCheck(balance_after) == FALSE
Insufficient(balance_after) == balance_after < 0

\* raise ValueError inside the atomic block: nothing of the call is kept
PartialWrite(bal, led, e) == [ok |-> FALSE, ledger |-> Append(led, e), balance |-> bal]
RaiseInsufficient(bal, led, e) == [ok |-> FALSE, ledger |-> led, balance |-> bal]

\* result of the call on database (bal, led): ok, the new ledger and balances
create_transaction(bal, led, u, mem, ttype, amount, ref) ==
    LET balance_before == LockedBalance(bal, u, mem)
        balance_after == balance_before + amount
    IN IF Insufficient(balance_after)
       THEN RaiseInsufficient(bal, led, Entry(u, ttype, amount, balance_before,
                                              balance_after, ref))
       ELSE [ok |-> TRUE,
             ledger |-> Append(led, Entry(u, ttype, amount, balance_before,
                                          balance_after, ref)),
             balance |-> [bal EXCEPT ![u] = balance_after]]

\* a ledger call of a handler: up = the database carries the call out; else
\* the call raises (connection lost, lock wait timeout) and its atomic block
\* keeps nothing
LedgerCall(t, up) ==
    IF up THEN t ELSE [ok |-> FALSE, ledger |-> ledger, balance |-> balance]

\* ------------------------------------------------------------------ Init
Init ==
    /\ balance = [u \in Users |-> IF u = "promoter" THEN PromoterStart ELSE EarnerStart]
    /\ ledger = <<>>
    /\ campaign = [status |-> "draft", reserved_funds |-> 0]
    /\ job = [j \in Jobs |-> [status |-> "none", earner |-> "none"]]
    /\ attempt = [j \in Jobs |-> "none"]
    /\ review = [j \in Jobs |-> "none"]
    /\ wd = [w \in Withdrawals |-> [status |-> "none", amount |-> 0, payout |-> FALSE]]
    /\ req = [p \in Procs |-> Idle]
    /\ res = [p \in Procs |-> "none"]
    /\ rule = DefaultRule
    /\ session = [j \in Jobs |-> "none"]
    /\ run = NoRun
    /\ fraud = [j \in Jobs |-> [indicators |-> 0, status |-> "none"]]
    /\ overdue = [j \in Jobs |-> FALSE]

\* a worker takes up a request: the in-memory copies the handler works from
\* (requests are anonymous: the second worker is taken only while the first is busy)
Begin(p, r) ==
    /\ req[p].op = "idle"
    /\ p = "w1" \/ req["w1"].op # "idle"
    /\ req' = [req EXCEPT ![p] = r]
    /\ res' = [res EXCEPT ![p] = "none"]
    /\ UNCHANGED <<balance, ledger, campaign, job, attempt, review, wd,
                 rule, session, run, fraud, overdue>>

\* the handler returns: the worker is free again
Return(p, result) ==
    /\ req' = [req EXCEPT ![p] = Idle]
    /\ res' = [res EXCEPT ![p] = result]

\* the handler returns an HTTP response, which is no part of the state
Done(p) == req' = [req EXCEPT ![p] = Idle]

\* ------------------------------------------------- admin wallet adjustment
AdjustAmounts == {-2, -1, 1, 2}

LoadAdjustWallet(p, u, amt) ==
    Begin(p, [Idle EXCEPT !.op = "adjust_wallet", !.user = u, !.amount = amt,
                          !.ubal = balance[u]])

adjust_wallet(p) ==
    /\ req[p].op = "adjust_wallet"
    /\ Len(ledger) < MaxLedger
    /\ LET r == req[p]
           t == create_transaction(balance, ledger, r.user, r.ubal,
                                   IF r.amount > 0 THEN "credit" ELSE "debit",
                                   r.amount, <<"admin_adjustment", "admin">>)
       IN /\ balance' = t.balance
          /\ ledger' = t.ledger
          /\ Return(p, IF t.ok THEN "ok" ELSE "InsufficientBalance")
    /\ UNCHANGED <<campaign, job, attempt, review, wd,
                 rule, session, run, fraud, overdue>>

NextLedger ==
    \/ \E p \in Procs, u \in Users, amt \in AdjustAmounts : LoadAdjustWallet(p, u, amt)
    \/ \E p \in Procs : adjust_wallet(p)

SpecLedger == Init /\ [][NextLedger]_vars

\* ---------------------------------------------------------------- campaigns
\* CampaignViewSet: campaign = self.get_object(), request.user
LoadCampaign(p, op) ==
    Begin(p, [Idle EXCEPT !.op = op, !.user = "promoter",
                          !.ubal = balance["promoter"],
                          !.cstatus = campaign.status,
                          !.cres = campaign.reserved_funds])

\* the hold entry's balance_after
HoldAfter(user_balance, budget) == user_balance - budget

\* CampaignViewSet.fund
fund(p) ==
    /\ req[p].op = "fund"
    /\ LET r == req[p]
       IN IF r.cstatus # "draft"
          THEN /\ Done(p)
               /\ UNCHANGED <<balance, ledger, campaign>>
          ELSE IF r.ubal < total_budget
          THEN /\ Done(p)
               /\ UNCHANGED <<balance, ledger, campaign>>
          ELSE /\ Len(ledger) < MaxMarketLedger
               /\ ledger' = Append(ledger,
                      Entry("promoter", "hold", total_budget, r.ubal,
                            HoldAfter(r.ubal, total_budget), <<"CAMPAIGN_FUND", "c1">>))
               /\ campaign' = [status |-> "active", reserved_funds |-> total_budget]
               /\ balance' = [balance EXCEPT !["promoter"] = r.ubal - total_budget]
               /\ Done(p)
    /\ UNCHANGED <<job, attempt, review, wd, res,
                 rule, session, run, fraud, overdue>>

\* campaign.jobs.filter(status='verified').count()
completed_jobs == Cardinality({j \in Jobs : job[j].status = "verified"})

\* refund of a cancelled campaign
refund_amount(reserved, completed) == reserved - completed * price_per_action

\* CampaignViewSet.cancel
cancel(p) ==
    /\ req[p].op = "cancel"
    /\ LET r == req[p]
           refund == refund_amount(r.cres, completed_jobs)
       IN IF r.cstatus \notin {"active", "paused"}
          THEN /\ Done(p)
               /\ UNCHANGED <<balance, ledger, campaign>>
          ELSE /\ IF refund > 0
                  THEN /\ Len(ledger) < MaxMarketLedger
                       /\ ledger' = Append(ledger,
                              Entry("promoter", "refund", refund, r.ubal,
                                    r.ubal + refund, <<"CAMPAIGN_CANCEL", "c1">>))
                       /\ balance' = [balance EXCEPT !["promoter"] = r.ubal + refund]
                  ELSE UNCHANGED <<balance, ledger>>
               /\ campaign' = [status |-> "cancelled", reserved_funds |-> 0]
               /\ Done(p)
    /\ UNCHANGED <<job, attempt, review, wd, res,
                 rule, session, run, fraud, overdue>>

\* --------------------------------------------------------------------- jobs
\* JobViewSet.create: JobCreateSerializer accepts a job of an active campaign
\* only (status "none": the job does not exist yet)
create_job(j) ==
    /\ job[j].status = "none"
    /\ campaign.status = "active"
    /\ job' = [job EXCEPT ![j].status = "open"]
    /\ UNCHANGED <<balance, ledger, campaign, attempt, review, wd, req, res,
                 rule, session, run, fraud, overdue>>

\* JobViewSet.accept: job = self.get_object(), request.user
LoadAccept(p, j, e) ==
    /\ job[j].status # "none"
    /\ Begin(p, [Idle EXCEPT !.op = "accept", !.user = e, !.arg = j,
                             !.ostatus = job[j].status,
                             !.earner = job[j].earner])

\* JobViewSet.accept
accept(p) ==
    /\ req[p].op = "accept"
    /\ LET r == req[p]
           j == r.arg
       IN IF r.ostatus # "open" \/ r.earner # "none"
          THEN UNCHANGED job
          ELSE job' = [job EXCEPT ![j] = [status |-> "accepted", earner |-> r.user]]
    /\ Done(p)
    /\ UNCHANGED <<balance, ledger, campaign, attempt, review, wd, res,
                 rule, session, run, fraud, overdue>>

\* JobViewSet.submit
submit(j) ==
    /\ job[j].earner \in Earners
    /\ job[j].status = "accepted"
    /\ attempt[j] = "none"
    /\ attempt' = [attempt EXCEPT ![j] = "pending"]
    /\ job' = [job EXCEPT ![j].status = "submitted"]
    /\ UNCHANGED <<balance, ledger, campaign, review, wd, req, res,
                 rule, session, run, fraud, overdue>>

\* JobViewSet.approve / reject: job = self.get_object(), job.campaign
LoadJob(p, op, j) ==
    Begin(p, [Idle EXCEPT !.op = op, !.user = "promoter", !.arg = j,
                          !.ostatus = job[j].status,
                          !.cstatus = campaign.status,
                          !.cres = campaign.reserved_funds])

\* the CAMPAIGN_SPEND entry's balance_after
SpendAfter(promoter_balance, reward) == promoter_balance

\* JobViewSet._process_job_payment: the two entries and the earner's balance
process_job_payment(j) ==
    LET earner == job[j].earner
        credit == Entry(earner, "credit", reward_amount, balance[earner],
                        balance[earner] + reward_amount, <<"JOB_COMPLETION", j>>)
        debit == Entry("promoter", "debit", reward_amount, balance["promoter"],
                       SpendAfter(balance["promoter"], reward_amount),
                       <<"CAMPAIGN_SPEND", j>>)
    IN [ledger |-> ledger \o <<credit, debit>>,
        balance |-> [balance EXCEPT ![earner] = @ + reward_amount]]

\* JobViewSet.approve
job_approve(p) ==
    /\ req[p].op = "job_approve"
    /\ LET r == req[p]
           j == r.arg
           pay == process_job_payment(j)
       IN IF r.ostatus # "submitted"
          THEN /\ Done(p)
               /\ UNCHANGED <<balance, ledger, campaign, job, attempt>>
          ELSE IF attempt[j] = "none"
          THEN /\ Done(p)
               /\ UNCHANGED <<balance, ledger, campaign, job, attempt>>
          ELSE /\ Len(ledger) + 2 <= MaxMarketLedger
               /\ attempt' = [attempt EXCEPT ![j] = "approved"]
               /\ job' = [job EXCEPT ![j].status = "verified"]
               /\ ledger' = pay.ledger
               /\ balance' = pay.balance
               /\ campaign' = [status |-> r.cstatus,
                               reserved_funds |-> r.cres - reward_amount]
               /\ Done(p)
    /\ UNCHANGED <<review, wd, res,
                 rule, session, run, fraud, overdue>>

\* JobViewSet.reject
job_reject(p) ==
    /\ req[p].op = "job_reject"
    /\ LET r == req[p]
           j == r.arg
       IN IF r.ostatus # "submitted"
          THEN /\ Done(p)
               /\ UNCHANGED <<job, attempt>>
          ELSE IF attempt[j] = "none"
          THEN /\ Done(p)
               /\ UNCHANGED <<job, attempt>>
          ELSE /\ attempt' = [attempt EXCEPT ![j] = "rejected"]
               /\ job' = [job EXCEPT ![j].status = "failed"]
               /\ Done(p)
    /\ UNCHANGED <<balance, ledger, campaign, review, wd, res,
                 rule, session, run, fraud, overdue>>

\* ------------------------------------------------------------- verification
\* the methods _run_verification_pipeline has a branch for
KnownMethods == {"deterministic", "tokenized", "screenshot", "headless", "ml"}
\* confidences in hundredths; Raised: the adapter raised or the method is unknown
Raised == -1
Outcomes == {Raised, 0, 50, 90}
\* _screenshot_analysis, _ml_verification: the adapters that catch every
\* exception of their service call and return confidence 0.0 instead
CatchingMethods == {"screenshot", "ml"}

\* VerificationService._run_verification_pipeline: the loop over the methods;
\* the sum of the confidences and the number of results it ends with, and
\* the position of the last method it called
RECURSIVE RunMethods(_, _, _, _)
RunMethods(outs, i, total, n) ==
    IF i > Len(outs) THEN [total |-> total, n |-> n, last |-> Len(outs)]
    ELSE IF outs[i] = Raised THEN RunMethods(outs, i + 1, total, n)
    ELSE IF outs[i] >= rule.pass_threshold
         THEN [total |-> total + outs[i], n |-> n + 1, last |-> i]
         ELSE RunMethods(outs, i + 1, total + outs[i], n + 1)

\* VerificationService._run_verification_pipeline: the final status
\* (overall_confidence = total / n when there are results, else 0.0)
PipelineStatus(outs) ==
    LET r == RunMethods(outs, 1, 0, 0)
        n == IF r.n > 0 THEN r.n ELSE 1
    IN IF r.total >= rule.pass_threshold * n THEN "verified"
       ELSE IF r.total >= rule.manual_review_threshold * n THEN "manual_review"
       ELSE "rejected"

\* VerificationService._add_to_manual_review: the item of the attempt (one per
\* attempt, OneToOneField); a failed create is logged and dropped
add_to_manual_review(j) ==
    IF review[j] = "none" THEN [review EXCEPT ![j] = "pending"] ELSE review

\* every outcome of the adapters of the rule's methods, and the statuses the
\* pipeline ends with on them
MethodOutcomes ==
    {outs \in [1..Len(rule.verification_methods) -> Outcomes] :
        \A i \in 1..Len(outs) :
            /\ rule.verification_methods[i] \notin KnownMethods => outs[i] = Raised
            /\ rule.verification_methods[i] \in CatchingMethods => outs[i] # Raised}
PipelineStatuses == {PipelineStatus(outs) : outs \in MethodOutcomes}

\* VerificationService.verify_job_attempt up to the pipeline: the rule is
\* looked up and the session row is created (one per attempt, OneToOneField:
\* with a session present the create raises and the handler returns 'failed')
create_session(j) ==
    /\ attempt[j] # "none"
    /\ rule.exists
    /\ session[j] = "none"
    /\ session' = [session EXCEPT ![j] = "pending"]
    /\ UNCHANGED <<balance, ledger, campaign, job, attempt, review, wd, req, res,
                   rule, run, fraud, overdue>>

\* VerificationService._handle_fraud_detection: the alert threshold, and the
\* number of fraud indicators a run can hand over
ALERT_THRESHOLD == 3
Indicators == 0..ALERT_THRESHOLD

\* VerificationService._handle_fraud_detection on n indicators: the records
\* the attempt has afterwards (a detection, or a detection with an alert);
\* flagged: the creates went through (an exception of theirs is logged and
\* dropped)
handle_fraud_detection(j, n, flagged) ==
    IF ~flagged THEN "none"
    ELSE IF n >= ALERT_THRESHOLD THEN "alert" ELSE "detected"

\* VerificationService.verify_job_attempt from the pipeline's return on,
\* status: result['status'] of the run, n: the number of its fraud
\* indicators, flagged / queued: the creates of _handle_fraud_detection /
\* _add_to_manual_review went through
verify_job_attempt(j, status, n, flagged, queued) ==
    /\ session[j] = "pending"
    /\ session' = [session EXCEPT ![j] = status]
    /\ attempt' = [attempt EXCEPT ![j] = status]
    /\ fraud' = [fraud EXCEPT ![j] =
                    [indicators |-> n,
                     status |-> IF n > 0 THEN handle_fraud_detection(j, n, flagged)
                                ELSE "none"]]
    /\ review' = IF status = "manual_review" /\ queued THEN add_to_manual_review(j)
                 ELSE review
    /\ UNCHANGED <<balance, ledger, campaign, job, wd, req, res,
                 rule, run, overdue>>

\* the clock passes started_at + rule.timeout_seconds of a running session
clock(j) ==
    /\ session[j] = "pending"
    /\ ~overdue[j]
    /\ overdue' = [overdue EXCEPT ![j] = TRUE]
    /\ UNCHANGED <<balance, ledger, campaign, job, attempt, review, wd, req, res,
                   rule, session, run, fraud>>

\* Job.verify, 'verified' branch: WalletTransaction.objects.create without
\* balance_before / balance_after, and no write of the user's wallet_balance
verify_credit(j) ==
    Entry(job[j].earner, "credit", reward_amount, NULL, NULL, <<"job_completion", j>>)

\* JobAttempt.verify_with_ai followed by Job.verify.  stored: whether the
\* database keeps the entry whose balance columns are unset (otherwise the
\* insert raises and Job.verify ends before self.save())
verify_with_ai(j, status, stored) ==
    /\ attempt[j] # "none"
    /\ attempt' = [attempt EXCEPT ![j] = status]
    /\ IF job[j].status # "submitted"
       THEN UNCHANGED <<job, ledger>>
       ELSE IF status = "verified"
       THEN IF job[j].earner # "none"
            THEN IF stored
                 THEN /\ Len(ledger) < MaxMarketLedger
                      /\ ledger' = Append(ledger, verify_credit(j))
                      /\ job' = [job EXCEPT ![j].status = "verified"]
                 ELSE UNCHANGED <<job, ledger>>
            ELSE /\ job' = [job EXCEPT ![j].status = "verified"]
                 /\ UNCHANGED ledger
       ELSE /\ job' = [job EXCEPT ![j].status = status]
            /\ UNCHANGED ledger
    /\ UNCHANGED <<balance, campaign, review, wd, req, res,
                 rule, session, run, fraud, overdue>>

\* ManualReviewQueueViewSet.review: review = self.get_object(), then
\* ManualReviewQueue.objects.get(id=review_id, status='pending')
LoadReview(p, op, j) ==
    /\ review[j] # "none"
    /\ Begin(p, [Idle EXCEPT !.op = op, !.user = "admin", !.arg = j,
                             !.ostatus = review[j]])

\* ManualReviewService._process_approved_job
process_approved_job(j) ==
    create_transaction(balance, ledger, job[j].earner, balance[job[j].earner],
                       "credit", reward_amount, <<"job_completion", j>>)

\* ManualReviewService.approve_review
approve_review(p, up) ==
    /\ req[p].op = "approve_review"
    /\ LET r == req[p]
           j == r.arg
           t == LedgerCall(process_approved_job(j), up)
       IN IF r.ostatus # "pending"
          THEN /\ Done(p)
               /\ UNCHANGED <<balance, ledger, attempt, review>>
          ELSE /\ Len(ledger) < MaxMarketLedger
               /\ review' = [review EXCEPT ![j] = "approved"]
               /\ attempt' = [attempt EXCEPT ![j] = "verified"]
               /\ ledger' = t.ledger
               /\ balance' = t.balance
               /\ Done(p)
    /\ UNCHANGED <<campaign, job, wd, res,
                 rule, session, run, fraud, overdue>>

\* ManualReviewService.reject_review
reject_review(p) ==
    /\ req[p].op = "reject_review"
    /\ LET r == req[p]
           j == r.arg
       IN IF r.ostatus # "pending"
          THEN /\ Done(p)
               /\ UNCHANGED <<attempt, review>>
          ELSE /\ review' = [review EXCEPT ![j] = "rejected"]
               /\ attempt' = [attempt EXCEPT ![j] = "rejected"]
               /\ Done(p)
    /\ UNCHANGED <<balance, ledger, campaign, job, wd, res,
                 rule, session, run, fraud, overdue>>

Next ==
    \/ \E p \in Procs, op \in {"fund", "cancel"} : LoadCampaign(p, op)
    \/ \E p \in Procs : fund(p)
    \/ \E p \in Procs : cancel(p)
    \/ \E j \in Jobs : create_job(j)
    \/ \E p \in Procs, j \in Jobs : LoadAccept(p, j, "earner")
    \/ \E p \in Procs : accept(p)
    \/ \E j \in Jobs : submit(j)
    \/ \E p \in Procs, j \in Jobs, op \in {"job_approve", "job_reject"} : LoadJob(p, op, j)
    \/ \E p \in Procs : job_approve(p)
    \/ \E p \in Procs : job_reject(p)
    \/ \E j \in Jobs : create_session(j)
    \/ \E j \in Jobs, status \in PipelineStatuses, n \in Indicators,
          flagged \in BOOLEAN, queued \in BOOLEAN :
          verify_job_attempt(j, status, n, flagged, queued)
    \/ \E j \in Jobs, status \in {"verified", "flagged", "failed"}, stored \in BOOLEAN :
          verify_with_ai(j, status, stored)
    \/ \E p \in Procs, j \in Jobs, op \in {"approve_review", "reject_review"} :
          LoadReview(p, op, j)
    \/ \E p \in Procs, up \in BOOLEAN : approve_review(p, up)
    \/ \E p \in Procs : reject_review(p)

Spec == Init /\ [][Next]_vars

\* -------------------------------------------------------------- withdrawals
WithdrawAmounts == {0, 1, 2}
\* settings.MIN_WITHDRAWAL_AMOUNT in units of money
MIN_WITHDRAWAL_AMOUNT == 1

\* settings.KYC_REQUIRED_THRESHOLD, User.kyc_status (default 'not_required')
KYC_REQUIRED_THRESHOLD == 100
kyc_status == [u \in Users |-> "not_required"]

\* User.can_withdraw, on the in-memory user
can_withdraw(u, wallet_balance) ==
    kyc_status[u] = "verified" \/ wallet_balance < KYC_REQUIRED_THRESHOLD

\* rows not created yet
FreeWithdrawals == {w \in Withdrawals : wd[w].status = "none"}

\* WithdrawalCreateSerializer.validate: the sum of the user's pending and
\* processing withdrawals
RECURSIVE SumWithdrawals(_)
SumWithdrawals(S) ==
    IF S = {} THEN 0
    ELSE LET w == CHOOSE x \in S : TRUE IN wd[w].amount + SumWithdrawals(S \ {w})
pending_withdrawals ==
    SumWithdrawals({w \in Withdrawals : wd[w].status \in {"pending", "processing"}})

\* WithdrawalCreateSerializer.validate_amount and validate, on the request's
\* user; a request that fails them is answered 400 and changes nothing
validate_withdrawal(amt) ==
    /\ amt > 0
    /\ amt >= MIN_WITHDRAWAL_AMOUNT
    /\ balance["earner"] >= amt
    /\ balance["earner"] - pending_withdrawals >= amt
    /\ amt >= KYC_REQUIRED_THRESHOLD => kyc_status["earner"] = "verified"

\* WithdrawalViewSet.create up to serializer.is_valid()
LoadRequestWithdrawal(p, amt) ==
    /\ validate_withdrawal(amt)
    /\ Cardinality(FreeWithdrawals) >
          Cardinality({q \in Procs : req[q].op = "request_withdrawal"})
    /\ Begin(p, [Idle EXCEPT !.op = "request_withdrawal", !.user = "earner",
                             !.amount = amt])

\* WithdrawalViewSet.perform_create: serializer.save(user=request.user)
request_withdrawal(p) ==
    /\ req[p].op = "request_withdrawal"
    /\ LET w == CHOOSE x \in FreeWithdrawals : TRUE
       IN wd' = [wd EXCEPT ![w] = [status |-> "pending", amount |-> req[p].amount,
                                   payout |-> FALSE]]
    /\ Return(p, "created")
    /\ UNCHANGED <<balance, ledger, campaign, job, attempt, review,
                 rule, session, run, fraud, overdue>>

\* the withdrawal instance (and its user) a handler works on; the payout
\* webhook finds the withdrawal through its Payout record;
\* BulkWithdrawalSerializer.validate_withdrawal_ids accepts pending rows
LoadWithdrawal(p, op, w) ==
    /\ wd[w].status # "none"
    /\ op = "wd_fail" => wd[w].payout
    /\ op = "wd_bulk" => wd[w].status = "pending"
    /\ Begin(p, [Idle EXCEPT !.op = op, !.user = "earner", !.arg = w,
                             !.amount = wd[w].amount,
                             !.ubal = balance["earner"],
                             !.ostatus = wd[w].status])

\* Withdrawal.can_process
can_process(r) ==
    /\ r.ostatus = "pending"
    /\ r.ubal >= r.amount
    /\ can_withdraw(r.user, r.ubal)

\* Withdrawal.process
wd_process(p, up) ==
    /\ req[p].op = "wd_process"
    /\ LET r == req[p]
           w == r.arg
           t == LedgerCall(create_transaction(balance, ledger, r.user, r.ubal,
                               "debit", 0 - r.amount, <<"withdrawal", w>>), up)
       IN IF ~can_process(r)
          THEN /\ Return(p, "ValueError")
               /\ UNCHANGED <<balance, ledger, wd>>
          ELSE IF ~t.ok
          THEN /\ Return(p, IF up THEN "InsufficientBalance" ELSE "DatabaseError")
               /\ UNCHANGED <<balance, ledger, wd>>
          ELSE /\ Len(ledger) < MaxMarketLedger
               /\ ledger' = t.ledger
               /\ balance' = t.balance
               /\ wd' = [wd EXCEPT ![w].status = "processing"]
               /\ Return(p, "ok")
    /\ UNCHANGED <<campaign, job, attempt, review,
                 rule, session, run, fraud, overdue>>

\* WithdrawalViewSet.approve; payout: whether StripeService.create_payout
\* returned (it raises otherwise and the atomic block is rolled back)
wd_approve(p, payout) ==
    /\ req[p].op = "wd_approve"
    /\ LET r == req[p]
           w == r.arg
       IN IF r.ostatus # "pending"
          THEN /\ Return(p, "not_pending")
               /\ UNCHANGED wd
          ELSE IF ~payout
          THEN /\ Return(p, "error")
               /\ UNCHANGED wd
          ELSE /\ wd' = [wd EXCEPT ![w].status = "processing", ![w].payout = TRUE]
               /\ Return(p, "ok")
    /\ UNCHANGED <<balance, ledger, campaign, job, attempt, review,
                 rule, session, run, fraud, overdue>>

\* Withdrawal.complete (WebhookService._handle_payout_paid) and
\* WithdrawalViewSet.complete
wd_complete(p) ==
    /\ req[p].op = "wd_complete"
    /\ LET r == req[p]
           w == r.arg
       IN IF r.ostatus # "processing"
          THEN /\ Return(p, "ValueError")
               /\ UNCHANGED wd
          ELSE /\ wd' = [wd EXCEPT ![w].status = "completed"]
               /\ Return(p, "ok")
    /\ UNCHANGED <<balance, ledger, campaign, job, attempt, review,
                 rule, session, run, fraud, overdue>>

\* Withdrawal.fail: the states it refunds from
FailFrom == {"pending", "processing"}

\* Withdrawal.fail (WebhookService._handle_payout_failed)
wd_fail(p, up) ==
    /\ req[p].op = "wd_fail"
    /\ LET r == req[p]
           w == r.arg
           t == LedgerCall(create_transaction(balance, ledger, r.user, r.ubal,
                               "refund", r.amount, <<"withdrawal_refund", w>>), up)
       IN IF r.ostatus \notin FailFrom
          THEN /\ Return(p, "ValueError")
               /\ UNCHANGED <<balance, ledger, wd>>
          ELSE /\ Len(ledger) < MaxMarketLedger
               /\ wd' = [wd EXCEPT ![w].status = "failed"]
               /\ ledger' = t.ledger
               /\ balance' = t.balance
               /\ Return(p, IF t.ok THEN "ok"
                             ELSE IF up THEN "InsufficientBalance" ELSE "DatabaseError")
    /\ UNCHANGED <<campaign, job, attempt, review,
                 rule, session, run, fraud, overdue>>

\* WithdrawalViewSet.reject
wd_reject(p) ==
    /\ req[p].op = "wd_reject"
    /\ LET r == req[p]
           w == r.arg
       IN IF r.ostatus # "pending"
          THEN /\ Return(p, "not_pending")
               /\ UNCHANGED <<balance, ledger, wd>>
          ELSE /\ Len(ledger) < MaxMarketLedger
               /\ wd' = [wd EXCEPT ![w].status = "failed"]
               /\ ledger' = Append(ledger,
                      Entry(r.user, "refund", r.amount, balance[r.user],
                            balance[r.user] + r.amount, <<"WITHDRAWAL_REFUND", w>>))
               /\ balance' = [balance EXCEPT ![r.user] = @ + r.amount]
               /\ Return(p, "ok")
    /\ UNCHANGED <<campaign, job, attempt, review,
                 rule, session, run, fraud, overdue>>

\* AdminWithdrawalManagementView.post: withdrawals.update(status=...)
BulkStatus == [approve |-> "processing", reject |-> "failed", process |-> "processing"]
wd_bulk(p, action) ==
    /\ req[p].op = "wd_bulk"
    /\ wd' = [wd EXCEPT ![req[p].arg].status = BulkStatus[action]]
    /\ Return(p, "ok")
    /\ UNCHANGED <<balance, ledger, campaign, job, attempt, review,
                 rule, session, run, fraud, overdue>>

\* FinancialManagementService.approve_withdrawal (FinancialManagementView.post)
approve_withdrawal(p) ==
    /\ req[p].op = "approve_withdrawal"
    /\ wd' = [wd EXCEPT ![req[p].arg].status = "processing"]
    /\ Return(p, "ok")
    /\ UNCHANGED <<balance, ledger, campaign, job, attempt, review,
                 rule, session, run, fraud, overdue>>

\* FinancialManagementService.reject_withdrawal
reject_withdrawal(p) ==
    /\ req[p].op = "reject_withdrawal"
    /\ wd' = [wd EXCEPT ![req[p].arg].status = "rejected"]
    /\ Return(p, "ok")
    /\ UNCHANGED <<balance, ledger, campaign, job, attempt, review,
                 rule, session, run, fraud, overdue>>

\* no withdrawal requested so far
NoWithdrawalYet ==
    /\ FreeWithdrawals = Withdrawals
    /\ \A q \in Procs : req[q].op # "request_withdrawal"

\* the lifecycle of one withdrawal, with wallet adjustments in between
NextWithdrawal ==
    \/ \E p \in Procs, amt \in WithdrawAmounts :
          NoWithdrawalYet /\ LoadRequestWithdrawal(p, amt)
    \/ \E p \in Procs : request_withdrawal(p)
    \/ \E p \in Procs, w \in Withdrawals,
          op \in {"wd_process", "wd_approve", "wd_complete", "wd_fail", "wd_reject"} :
          LoadWithdrawal(p, op, w)
    \/ \E p \in Procs, up \in BOOLEAN : wd_process(p, up)
    \/ \E p \in Procs, payout \in BOOLEAN : wd_approve(p, payout)
    \/ \E p \in Procs : wd_complete(p)
    \/ \E p \in Procs, up \in BOOLEAN : wd_fail(p, up)
    \/ \E p \in Procs : wd_reject(p)
    \/ \E p \in Procs, amt \in {-1, 1} : LoadAdjustWallet(p, "earner", amt)
    \/ \E p \in Procs : adjust_wallet(p)

SpecWithdrawal == Init /\ [][NextWithdrawal]_vars

\* one withdrawal and every operation that writes a withdrawal's status
NextWithdrawalStatus ==
    \/ \E p \in Procs, amt \in WithdrawAmounts :
          NoWithdrawalYet /\ LoadRequestWithdrawal(p, amt)
    \/ \E p \in Procs : request_withdrawal(p)
    \/ \E p \in Procs, w \in Withdrawals,
          op \in {"wd_process", "wd_approve", "wd_complete", "wd_fail", "wd_reject",
                  "wd_bulk", "approve_withdrawal", "reject_withdrawal"} :
          LoadWithdrawal(p, op, w)
    \/ \E p \in Procs, up \in BOOLEAN : wd_process(p, up)
    \/ \E p \in Procs, payout \in BOOLEAN : wd_approve(p, payout)
    \/ \E p \in Procs : wd_complete(p)
    \/ \E p \in Procs, up \in BOOLEAN : wd_fail(p, up)
    \/ \E p \in Procs : wd_reject(p)
    \/ \E p \in Procs, action \in {"approve", "reject", "process"} : wd_bulk(p, action)
    \/ \E p \in Procs : approve_withdrawal(p)
    \/ \E p \in Procs : reject_withdrawal(p)

SpecWithdrawalStatus == Init /\ [][NextWithdrawalStatus]_vars

\* withdrawal requests of one user, approved or rejected by an admin
NextRequest ==
    \/ \E p \in Procs, amt \in WithdrawAmounts : LoadRequestWithdrawal(p, amt)
    \/ \E p \in Procs : request_withdrawal(p)
    \/ \E p \in Procs, w \in Withdrawals, op \in {"wd_approve", "wd_reject"} :
          LoadWithdrawal(p, op, w)
    \/ \E p \in Procs, payout \in BOOLEAN : wd_approve(p, payout)
    \/ \E p \in Procs : wd_reject(p)

SpecRequest == Init /\ [][NextRequest]_vars

\* ------------------------------------------------------- sub-specifications
\* campaign funding, job payout and cancellation alone
NextMarket ==
    \/ \E p \in Procs, op \in {"fund", "cancel"} : LoadCampaign(p, op)
    \/ \E p \in Procs : fund(p)
    \/ \E p \in Procs : cancel(p)
    \/ \E j \in Jobs : create_job(j)
    \/ \E p \in Procs, j \in Jobs : LoadAccept(p, j, "earner")
    \/ \E p \in Procs : accept(p)
    \/ \E j \in Jobs : submit(j)
    \/ \E p \in Procs, j \in Jobs, op \in {"job_approve", "job_reject"} : LoadJob(p, op, j)
    \/ \E p \in Procs : job_approve(p)
    \/ \E p \in Procs : job_reject(p)

SpecMarket == Init /\ [][NextMarket]_vars

\* the verification service and the manual review service alone
NextReview ==
    \/ \E p \in Procs : LoadCampaign(p, "fund")
    \/ \E p \in Procs : fund(p)
    \/ \E j \in Jobs : create_job(j)
    \/ \E p \in Procs, j \in Jobs : LoadAccept(p, j, "earner")
    \/ \E p \in Procs : accept(p)
    \/ \E j \in Jobs : submit(j)
    \/ \E j \in Jobs : create_session(j)
    \/ \E j \in Jobs, status \in PipelineStatuses, n \in Indicators,
          flagged \in BOOLEAN, queued \in BOOLEAN :
          verify_job_attempt(j, status, n, flagged, queued)
    \/ \E p \in Procs, j \in Jobs, op \in {"approve_review", "reject_review"} :
          LoadReview(p, op, j)
    \/ \E p \in Procs, up \in BOOLEAN : approve_review(p, up)
    \/ \E p \in Procs : reject_review(p)

SpecReview == Init /\ [][NextReview]_vars

\* ManualReviewQueue.assign on the item of attempt j (no check of the status)
assign(j) ==
    /\ review[j] # "none"
    /\ review' = [review EXCEPT ![j] = "in_review"]
    /\ UNCHANGED <<balance, ledger, campaign, job, attempt, wd, req, res,
                   rule, session, run, fraud, overdue>>

\* ManualReviewQueue.escalate (no check of the status)
escalate(j) ==
    /\ review[j] # "none"
    /\ review' = [review EXCEPT ![j] = "escalated"]
    /\ UNCHANGED <<balance, ledger, campaign, job, attempt, wd, req, res,
                   rule, session, run, fraud, overdue>>

\* jobs of a funded campaign and the earners who take them
NextAccept ==
    \/ \E p \in Procs : LoadCampaign(p, "fund")
    \/ \E p \in Procs : fund(p)
    \/ \E j \in Jobs : create_job(j)
    \/ \E p \in Procs, j \in Jobs, e \in Earners : LoadAccept(p, j, e)
    \/ \E p \in Procs : accept(p)
    \/ \E j \in Jobs : submit(j)

SpecAccept == Init /\ [][NextAccept]_vars

\* the manual review queue: the review service and the model's own methods
NextQueue ==
    \/ NextReview
    \/ \E j \in Jobs : assign(j)
    \/ \E j \in Jobs : escalate(j)

SpecQueue == Init /\ [][NextQueue]_vars

\* verification sessions with the clock running; a session that was created
\* is carried on by its coroutine
NextTimeout ==
    \/ NextReview
    \/ \E j \in Jobs : clock(j)

SpecTimeout ==
    /\ Init
    /\ [][NextTimeout]_vars
    /\ \A j \in Jobs :
          WF_vars(\E status \in PipelineStatuses, n \in Indicators,
                     flagged \in BOOLEAN, queued \in BOOLEAN :
                     verify_job_attempt(j, status, n, flagged, queued))

\* the operations that issue a ledger call inside a larger operation: manual
\* review approval (credit), Withdrawal.process (debit), Withdrawal.fail (refund)
NextIssuers ==
    \/ \E p \in Procs : LoadCampaign(p, "fund")
    \/ \E p \in Procs : fund(p)
    \/ \E j \in Jobs : create_job(j)
    \/ \E p \in Procs, j \in Jobs : LoadAccept(p, j, "earner")
    \/ \E p \in Procs : accept(p)
    \/ \E j \in Jobs : submit(j)
    \/ \E j \in Jobs : create_session(j)
    \/ \E j \in Jobs, status \in PipelineStatuses :
          verify_job_attempt(j, status, 0, FALSE, TRUE)
    \/ \E p \in Procs, j \in Jobs : LoadReview(p, "approve_review", j)
    \/ \E p \in Procs, up \in BOOLEAN : approve_review(p, up)
    \/ \E p \in Procs, amt \in WithdrawAmounts :
          NoWithdrawalYet /\ LoadRequestWithdrawal(p, amt)
    \/ \E p \in Procs : request_withdrawal(p)
    \/ \E p \in Procs, w \in Withdrawals, op \in {"wd_process", "wd_approve", "wd_fail"} :
          LoadWithdrawal(p, op, w)
    \/ \E p \in Procs, up \in BOOLEAN : wd_process(p, up)
    \/ \E p \in Procs, payout \in BOOLEAN : wd_approve(p, payout)
    \/ \E p \in Procs, up \in BOOLEAN : wd_fail(p, up)

SpecIssuers == Init /\ [][NextIssuers]_vars

\* ------------------------------------------- verification rules and pipeline
\* longest method list of a rule
MaxMethods == 3
Thresholds == {30, 50, 80}
MethodNames == {"deterministic", "ml", "manual"}
MethodLists == UNION {[1..n -> MethodNames] : n \in 0..MaxMethods}
RuleData == [verification_methods : MethodLists, pass_threshold : Thresholds,
             manual_review_threshold : Thresholds, fail_threshold : Thresholds]
\* request data of an update: the thresholds or the method list
RulePatches ==
    {data \in [verification_methods : {rule.verification_methods} \cup MethodLists,
               pass_threshold : {rule.pass_threshold} \cup Thresholds,
               manual_review_threshold : {rule.manual_review_threshold} \cup Thresholds,
               fail_threshold : {rule.fail_threshold} \cup Thresholds] :
        \/ data.verification_methods = rule.verification_methods
        \/ /\ data.pass_threshold = rule.pass_threshold
           /\ data.manual_review_threshold = rule.manual_review_threshold
           /\ data.fail_threshold = rule.fail_threshold}

\* VerificationRuleCreateSerializer.validate_verification_methods
valid_methods == {"deterministic", "tokenized", "screenshot", "headless", "manual", "ml"}

\* VerificationRuleCreateSerializer.validate_thresholds
validate_thresholds(data) ==
    /\ data.fail_threshold <= data.manual_review_threshold
    /\ data.manual_review_threshold <= data.pass_threshold

StoreRule(data) ==
    [exists |-> TRUE, verification_methods |-> data.verification_methods,
     pass_threshold |-> data.pass_threshold,
     manual_review_threshold |-> data.manual_review_threshold,
     fail_threshold |-> data.fail_threshold]

\* VerificationRuleViewSet.create with VerificationRuleCreateSerializer: the
\* serializer runs the validate_<field> hooks of its declared fields and
\* validate(); validate_thresholds is neither and is not run.  The row is
\* unique per platform and engagement type.
create_rule(data) ==
    /\ ~rule.exists
    /\ \A i \in 1..Len(data.verification_methods) :
          data.verification_methods[i] \in valid_methods
    /\ rule' = StoreRule(data)
    /\ run' = NoRun
    /\ UNCHANGED <<balance, ledger, campaign, job, attempt, review, wd, req, res,
                   session, fraud, overdue>>

\* VerificationRuleViewSet.update / partial_update with VerificationRuleSerializer
update_rule(data) ==
    /\ rule.exists
    /\ rule' = StoreRule(data)
    /\ run' = NoRun
    /\ UNCHANGED <<balance, ledger, campaign, job, attempt, review, wd, req, res,
                   session, fraud, overdue>>

\* VerificationRuleViewSet.destroy
destroy_rule ==
    /\ rule.exists
    /\ rule' = NoRule
    /\ run' = NoRun
    /\ UNCHANGED <<balance, ledger, campaign, job, attempt, review, wd, req, res,
                   session, fraud, overdue>>

\* VerificationService._run_verification_pipeline on the outcomes outs of the
\* adapters: the dictionary it returns (confidence = total / n)
run_verification_pipeline(outs) ==
    /\ rule.exists
    /\ LET r == RunMethods(outs, 1, 0, 0)
       IN run' = [outs |-> outs, total |-> r.total, n |-> r.n, last |-> r.last,
                  status |-> PipelineStatus(outs), rule |-> rule]
    /\ UNCHANGED <<balance, ledger, campaign, job, attempt, review, wd, req, res,
                   rule, session, fraud, overdue>>

NextPipeline ==
    \/ \E data \in RuleData : create_rule(data)
    \/ \E data \in RulePatches : update_rule(data)
    \/ destroy_rule
    \/ \E outs \in MethodOutcomes : run_verification_pipeline(outs)

SpecPipeline == Init /\ [][NextPipeline]_vars

\* ======================================================================
\* Properties
\* ======================================================================
StartBalance(u) == IF u = "promoter" THEN PromoterStart ELSE EarnerStart

RECURSIVE SumAmounts(_)
SumAmounts(es) == IF es = <<>> THEN 0 ELSE Head(es).amount + SumAmounts(Tail(es))

\* a worker returns from the wallet adjustment (one Apply call) in this step
ApplyReturns(p) == req[p].op = "adjust_wallet" /\ req'[p].op = "idle"

\* C1: over every interleaving of Apply calls the running balance is never
\* negative: no entry has a negative balance_after and no cached
\* wallet_balance is negative.
C1_NeverNegative ==
    /\ \A u \in Users : balance[u] >= 0
    /\ \A i \in 1..Len(ledger) :
          ledger[i].balance_after # NULL => ledger[i].balance_after >= 0

\* a debit that took the balance exactly to zero was written, and a later
\* debit was turned down
C1_Witness ==
    /\ \E i \in 1..Len(ledger) : ledger[i].amount < 0 /\ ledger[i].balance_after = 0
    /\ \E p \in Procs : res[p] = "InsufficientBalance"

\* C4: Apply calls on one user are serialized: each call decides and writes
\* against the balance stored at the moment it runs (not the balance its
\* caller loaded), in one step, so of two concurrent debits that the balance
\* covers only singly the second is turned down.
C4_ApplySerialized ==
    [][\A p \in Procs : ApplyReturns(p) =>
         LET r == req[p]
             B == balance[r.user]
         IN IF B + r.amount < 0
            THEN res'[p] = "InsufficientBalance" /\ balance'[r.user] = B
            ELSE /\ res'[p] = "ok"
                 /\ Len(ledger') = Len(ledger) + 1
                 /\ ledger'[Len(ledger')].balance_before = B
                 /\ ledger'[Len(ledger')].balance_after = B + r.amount
                 /\ balance'[r.user] = B + r.amount
                 /\ StartBalance(r.user) + SumAmounts(EntriesOf(ledger', r.user))
                      = balance'[r.user]]_vars

\* two debits were loaded against the same balance, which covers each but
\* not both; the first has been written, the second is still in flight
C4_Witness ==
    \E p \in Procs, i \in 1..Len(ledger) :
        /\ req[p].op = "adjust_wallet" /\ req[p].amount < 0
        /\ ledger[i].user = req[p].user /\ ledger[i].amount < 0
        /\ ledger[i].balance_before = req[p].ubal
        /\ req[p].ubal + req[p].amount >= 0
        /\ balance[req[p].user] + req[p].amount < 0

\* C9: an Apply with balance_before + amount < 0 fails with insufficient
\* balance and writes nothing: ledger and cached balances are unchanged.
C9_InsufficientWritesNothing ==
    [][\A p \in Procs :
         (ApplyReturns(p) /\ balance[req[p].user] + req[p].amount < 0) =>
             /\ res'[p] = "InsufficientBalance"
             /\ ledger' = ledger
             /\ balance' = balance]_vars

\* a debit larger than the balance was turned down after earlier entries
C9_Witness ==
    /\ \E p \in Procs : res[p] = "InsufficientBalance"
    /\ Len(ledger) >= 1

\* C10: a ledger reference is used by at most one entry of a user (a repeat
\* with the same amount is a no-op, a repeat with another amount is
\* rejected with ReferenceConflict).
C10_ReferenceUsedOnce ==
    \A i, k \in 1..Len(ledger) :
        (ledger[i].user = ledger[k].user /\ ledger[i].reference = ledger[k].reference)
            => i = k

\* index sets over the ledger
UserEntries(u) == {i \in 1..Len(ledger) : ledger[i].user = u}
LastOf(u) == CHOOSE i \in UserEntries(u) : \A k \in UserEntries(u) : k <= i

\* entries written in this step
NewEntries(u) == {i \in (Len(ledger) + 1)..Len(ledger') : ledger'[i].user = u}

\* C2: each user's cached wallet_balance equals the balance_after of the
\* user's most recent entry (the starting balance when there is none); no
\* step changes a cached balance without writing an entry of that user, and
\* every step that writes an entry of a user changes that user's cached
\* balance, to the balance_after of the entry.
C2_CacheMatchesLedger ==
    /\ [](\A u \in Users :
            balance[u] = IF UserEntries(u) = {} THEN StartBalance(u)
                         ELSE ledger[LastOf(u)].balance_after)
    /\ [][\A u \in Users :
            /\ balance'[u] # balance[u] => NewEntries(u) # {}
            /\ \A i \in NewEntries(u) :
                  /\ balance'[u] # balance[u]
                  /\ ledger'[i].balance_after = balance'[u]]_vars

\* C3: per user the entries in creation order form a prefix-sum chain:
\* balance_after = balance_before + amount, and balance_before is the
\* previous entry's balance_after.
C3_PrefixSumChain ==
    \A u \in Users :
        LET es == EntriesOf(ledger, u)
        IN \A i \in 1..Len(es) :
              /\ es[i].balance_after = es[i].balance_before + es[i].amount
              /\ i > 1 => es[i].balance_before = es[i - 1].balance_after

\* credit entries paying the completion of job j
JobCredits(j) ==
    {i \in 1..Len(ledger) :
        /\ ledger[i].transaction_type = "credit"
        /\ ledger[i].reference \in {<<"job_completion", j>>, <<"JOB_COMPLETION", j>>}}

\* C5: however often and through whichever path the verified-credit path is
\* called for a job attempt, the job has at most one credit entry.
C5_OneCreditPerJob == \A j \in Jobs : Cardinality(JobCredits(j)) <= 1

\* C6: an attempt the verification has marked verified has been credited:
\* exactly one credit entry of the reward with the job-completion reference.
C6_VerifiedIsCredited ==
    \A j \in Jobs :
        attempt[j] = "verified" =>
            /\ Cardinality(JobCredits(j)) = 1
            /\ \A i \in JobCredits(j) : ledger[i].amount = reward_amount

\* entries of a withdrawal; FailRefunds: the refunds Withdrawal.fail writes
FailRefunds(w) ==
    {i \in 1..Len(ledger) : ledger[i].reference = <<"withdrawal_refund", w>>}
WdDebits(w) == {i \in 1..Len(ledger) : ledger[i].reference = <<"withdrawal", w>>}
WdRefunds(w) ==
    {i \in 1..Len(ledger) :
        ledger[i].reference \in {<<"withdrawal_refund", w>>, <<"WITHDRAWAL_REFUND", w>>}}
RECURSIVE SumOver(_)
SumOver(S) ==
    IF S = {} THEN 0
    ELSE LET i == CHOOSE x \in S : TRUE IN ledger[i].amount + SumOver(S \ {i})

\* C7: a withdrawal has at most one debit entry; a withdrawal that goes from
\* processing to failed has, from then on, exactly one refund entry, and what
\* its refunds add equals what its debits took.
C7_OneDebitOneRefund ==
    /\ [](\A w \in Withdrawals :
            /\ Cardinality(WdDebits(w)) <= 1
            /\ Cardinality(WdRefunds(w)) <= 1
            /\ FailRefunds(w) # {} => SumOver(WdRefunds(w)) + SumOver(WdDebits(w)) = 0)
    /\ [][\A w \in Withdrawals :
            (wd[w].status = "processing" /\ wd'[w].status = "failed") =>
                Cardinality({i \in 1..Len(ledger') :
                    ledger'[i].reference \in {<<"withdrawal_refund", w>>,
                                              <<"WITHDRAWAL_REFUND", w>>}}) = 1]_vars

\* C8: the users' wallet balances plus the campaign's reserved funds add up
\* to the same total in every state.
TotalMoney == balance["promoter"] + balance["earner"] + campaign.reserved_funds
C8_MoneyConserved == TotalMoney = PromoterStart + EarnerStart

\* the confidences a run collected: those of the methods it called that
\* returned a result
Collected(r) == {i \in 1..r.last : r.outs[i] # Raised}
RECURSIVE SumConf(_, _)
SumConf(outs, S) ==
    IF S = {} THEN 0
    ELSE LET i == CHOOSE x \in S : TRUE IN outs[i] + SumConf(outs, S \ {i})

\* C11: the confidence of a run is the mean of the confidences it collected,
\* its decision is verified iff the mean >= pass_threshold, manual_review iff
\* manual_review_threshold <= mean < pass_threshold, rejected otherwise, and
\* the rule it used has fail_threshold <= manual_review_threshold <=
\* pass_threshold.
C11_DecisionMatchesMean ==
    run.status # "none" =>
        LET n == IF run.n > 0 THEN run.n ELSE 1
        IN /\ run.n = Cardinality(Collected(run))
           /\ run.total = SumConf(run.outs, Collected(run))
           /\ run.status = "verified" <=> run.total >= run.rule.pass_threshold * n
           /\ run.status = "manual_review" <=>
                 /\ run.total >= run.rule.manual_review_threshold * n
                 /\ run.total < run.rule.pass_threshold * n
           /\ run.status \in {"verified", "manual_review", "rejected"}
           /\ run.rule.fail_threshold <= run.rule.manual_review_threshold
           /\ run.rule.manual_review_threshold <= run.rule.pass_threshold

\* C12: the decision recorded on a manual review item is never overwritten,
\* and once an item is decided no further decision changes the attempt's
\* status or adds a credit for the job.
C12_OneDecisionPerItem ==
    [][\A j \in Jobs :
          review[j] \in {"approved", "rejected"} =>
              /\ review'[j] = review[j]
              /\ attempt'[j] = attempt[j]
              /\ \A i \in (Len(ledger) + 1)..Len(ledger') :
                    ledger'[i].reference # <<"job_completion", j>>]_vars


\* Withdrawal.STATUS_CHOICES
WithdrawalStatuses == {"pending", "processing", "completed", "failed", "cancelled"}

\* C13: a withdrawal's status only moves pending -> processing -> completed,
\* pending -> processing -> failed, pending -> failed, pending -> cancelled:
\* no step of any status-writing operation makes another move or stores a
\* status outside the five states, and completed, failed, cancelled are final.
C13_StatusTransitions ==
    [][\A w \in Withdrawals :
          \/ wd'[w].status = wd[w].status
          \/ /\ wd'[w].status \in WithdrawalStatuses
             /\ <<wd[w].status, wd'[w].status>> \in
                   {<<"none", "pending">>, <<"pending", "processing">>,
                    <<"processing", "completed">>, <<"processing", "failed">>,
                    <<"pending", "failed">>, <<"pending", "cancelled">>}]_vars


\* C14: a run in which no method produced output (every adapter raised, every
\* method is unknown, or the method list is empty) decides manual_review,
\* neither verified nor rejected.
C14_NoOutputIsManualReview ==
    (run.status # "none" /\ Collected(run) = {}) => run.status = "manual_review"

\* C17: Complete is accepted only from processing and moves the withdrawal to
\* completed; a repeated Complete on a completed withdrawal succeeds and
\* leaves the withdrawal and the ledger as they are; from any other state it
\* is refused and changes nothing (the state being the one the call read).
C17_CompleteIdempotent ==
    [][\A p \in Procs :
          (req[p].op = "wd_complete" /\ req'[p].op # "wd_complete") =>
              LET w == req[p].arg
              IN /\ req[p].ostatus = "processing" =>
                       (wd'[w].status = "completed" /\ res'[p] = "ok")
                 /\ req[p].ostatus = "completed" =>
                       (res'[p] = "ok" /\ wd' = wd /\ ledger' = ledger)
                 /\ req[p].ostatus \notin {"processing", "completed"} =>
                       (res'[p] # "ok" /\ wd' = wd)]_vars

\* C18: the stored rule always has fail_threshold <= manual_review_threshold
\* <= pass_threshold: a create or update with thresholds out of order is
\* rejected before it changes the rule.
C18_StoredRuleOrdered ==
    rule.exists => validate_thresholds(rule)

\* C19: a session's status only moves pending -> in_progress -> completed,
\* failed or timeout: it is created pending, holds no other value, and a
\* terminal status is never changed.
C19_SessionLifecycle ==
    [][\A j \in Jobs :
          \/ session'[j] = session[j]
          \/ <<session[j], session'[j]>> \in
                {<<"none", "pending">>, <<"pending", "in_progress">>,
                 <<"in_progress", "completed">>, <<"in_progress", "failed">>,
                 <<"in_progress", "timeout">>}]_vars

\* the running mean of the confidences collected up to method i reached
\* pass_threshold
MeanPasses(r, i) ==
    LET S == {k \in 1..i : r.outs[k] # Raised}
    IN S # {} /\ SumConf(r.outs, S) >= r.rule.pass_threshold * Cardinality(S)

\* C20: a run stops after method i exactly when the running mean of the
\* confidences collected so far is >= pass_threshold: it stops before the end
\* of the list only there, and it never goes on past such a point.
C20_StopsOnRunningMean ==
    run.status # "none" =>
        /\ run.last < Len(run.outs) => MeanPasses(run, run.last)
        /\ \A i \in 1..(run.last - 1) : ~MeanPasses(run, i)


\* C15: a fund call on a draft campaign whose promoter balance is at least
\* the budget writes exactly one hold entry with balance_after = previous
\* balance - budget, lowers the balance by the budget and makes the campaign
\* active; on a campaign that is not draft, or with a balance below the
\* budget (a concurrent change between check and write included), it writes
\* no entry and changes neither balance nor campaign.
C15_FundDraftCampaign ==
    [][\A p \in Procs :
          (req[p].op = "fund" /\ req'[p].op # "fund") =>
              IF campaign.status = "draft" /\ balance["promoter"] >= total_budget
              THEN /\ Len(ledger') = Len(ledger) + 1
                   /\ ledger'[Len(ledger')] =
                         Entry("promoter", "hold", total_budget, balance["promoter"],
                               balance["promoter"] - total_budget,
                               <<"CAMPAIGN_FUND", "c1">>)
                   /\ balance' = [balance EXCEPT !["promoter"] = @ - total_budget]
                   /\ campaign'.status = "active"
              ELSE /\ ledger' = ledger
                   /\ balance' = balance
                   /\ campaign' = campaign]_vars


\* C16: a withdrawal request is accepted only with 0 < amount <= balance minus
\* the user's pending and processing withdrawals; it creates one pending
\* withdrawal of that amount and leaves ledger and balance alone; and after
\* every step the sum of the user's pending withdrawals is at most the
\* user's balance.
C16_RequestWithinAvailable ==
    [][/\ \A p \in Procs :
             (req[p].op = "request_withdrawal" /\ req'[p].op # "request_withdrawal") =>
                 /\ req[p].amount > 0
                 /\ req[p].amount <= balance["earner"] - pending_withdrawals
                 /\ kyc_status["earner"] = "verified"
                       \/ req[p].amount < KYC_REQUIRED_THRESHOLD
                 /\ \E w \in FreeWithdrawals :
                       wd' = [wd EXCEPT ![w] = [status |-> "pending",
                                                amount |-> req[p].amount,
                                                payout |-> FALSE]]
                 /\ ledger' = ledger
                 /\ balance' = balance
       /\ SumWithdrawals({w \in Withdrawals : wd[w].status = "pending"})'
             <= balance'["earner"]]_vars


\* C21: an adapter that fails counts as confidence 0 in the mean and does not
\* abort the run: every method of the rule that was called and is known is
\* counted in the denominator, a failed one adds nothing to the sum, the
\* methods after it still run, and the run ends with a decision.
C21_FailedAdapterCountsZero ==
    run.status # "none" =>
        LET called == {i \in 1..run.last :
                          run.rule.verification_methods[i] \in KnownMethods}
        IN /\ run.n = Cardinality(called)
           /\ run.total = SumConf(run.outs, {i \in called : run.outs[i] # Raised})
           /\ \A i \in called : run.outs[i] = Raised => run.last = Len(run.outs)
                                                      \/ run.last > i
           /\ run.status \in {"verified", "manual_review", "rejected"}


\* C22: a withdrawal has a refund entry only if it has a debit entry, and a
\* step that fails or rejects a withdrawal without a debit entry writes no
\* ledger entry and leaves the balances as they are.
C22_RefundOnlyAfterDebit ==
    /\ [](\A w \in Withdrawals : WdRefunds(w) # {} => WdDebits(w) # {})
    /\ [][\A w \in Withdrawals :
            (wd[w].status # "failed" /\ wd'[w].status = "failed" /\ WdDebits(w) = {}) =>
                (ledger' = ledger /\ balance' = balance)]_vars


\* C23: a ledger call that fails aborts the operation around it with nothing
\* committed: an approval whose credit fails leaves the review item and the
\* attempt as they were, a Process whose debit fails leaves the withdrawal
\* pending, a Fail whose refund fails does not leave the withdrawal failed.
C23_LedgerErrorAborts ==
    [][\A p \in Procs :
          (req[p].op # "idle" /\ req'[p].op = "idle" /\ ledger' = ledger) =>
              /\ (req[p].op = "approve_review" /\ req[p].ostatus = "pending") =>
                    (review' = review /\ attempt' = attempt)
              /\ (req[p].op = "wd_process" /\ can_process(req[p])) => wd' = wd
              /\ (req[p].op = "wd_fail" /\ req[p].ostatus \in FailFrom) => wd' = wd]_vars


\* C24: a session that runs past its rule's timeout eventually gets the
\* status timeout and its attempt gets a manual review item.
C24_TimeoutRoutedToReview ==
    \A j \in Jobs :
        overdue[j] ~> (session[j] = "timeout" /\ review[j] # "none")


\* the step in which verify_job_attempt stores the pipeline's decision d for j
Decides(j, d) == session[j] = "pending" /\ session'[j] = d

\* C25: when the pipeline's decision is rejected the attempt is marked
\* failed, no ledger entry is written and no balance changes.
C25_RejectedMarksFailed ==
    [][\A j \in Jobs :
          Decides(j, "rejected") =>
              (attempt'[j] = "failed" /\ ledger' = ledger /\ balance' = balance)]_vars

\* C26: when the pipeline's decision is manual_review the attempt gets its
\* one review item in status pending, stays in a pending-review state, and
\* no ledger entry is written; while the item is pending the job has no
\* credit entry.
C26_ManualReviewEnqueued ==
    /\ [][\A j \in Jobs :
            Decides(j, "manual_review") =>
                /\ review'[j] = "pending"
                /\ attempt'[j] \in {"pending", "manual_review"}
                /\ ledger' = ledger]_vars
    /\ [](\A j \in Jobs : review[j] = "pending" => JobCredits(j) = {})

\* C27: whatever the decision of a run, the attempt has a fraud detection
\* record when the run handed over fraud indicators and a fraud alert when
\* they are ALERT_THRESHOLD or more; the decision stored is the pipeline's
\* and the ledger is not touched.
C27_FraudFlagIndependent ==
    /\ [](\A j \in Jobs :
            session[j] \in {"verified", "manual_review", "rejected"} =>
                /\ fraud[j].indicators > 0 => fraud[j].status # "none"
                /\ fraud[j].indicators >= ALERT_THRESHOLD => fraud[j].status = "alert")
    /\ [][\A j \in Jobs :
            (session[j] = "pending" /\ session'[j] # "pending") =>
                (attempt'[j] = session'[j] /\ ledger' = ledger /\ balance' = balance)]_vars


\* C28: a review item's status only moves pending -> in_review -> completed
\* and pending / in_review -> escalated: no assignment but from pending, no
\* decision but from in_review into completed, nothing after completed, and
\* an escalation leaves the attempt's status alone.
C28_ReviewItemLifecycle ==
    [][\A j \in Jobs :
          /\ \/ review'[j] = review[j]
             \/ <<review[j], review'[j]>> \in
                   {<<"none", "pending">>, <<"pending", "in_review">>,
                    <<"in_review", "completed">>, <<"pending", "escalated">>,
                    <<"in_review", "escalated">>}
          /\ (review'[j] = "escalated" /\ review[j] # "escalated") =>
                attempt'[j] = attempt[j]]_vars


\* C29: a job is accepted by at most one earner: an accept call takes the job
\* only if the job is open with no earner, and a job's earner, once set, is
\* never replaced (of two concurrent accepts at most one takes the job).
C29_OneEarnerPerJob ==
    [][\A j \in Jobs :
          /\ job[j].earner # "none" => job'[j].earner = job[j].earner
          /\ job'[j].earner # job[j].earner =>
                (job[j].status = "open" /\ job'[j].status = "accepted")]_vars


\* the ledger entries written by the cancellation of the campaign
CancelRefunds(l) ==
    {i \in 1..Len(l) : /\ l[i].transaction_type = "refund"
                        /\ l[i].reference = <<"CAMPAIGN_CANCEL", "c1">>}

\* C30: a campaign is cancelled at most once: the ledger holds at most one
\* cancellation refund entry, and a cancel call either changes nothing (no
\* ledger entry, same balances, same campaign) or finds the stored campaign
\* active or paused and leaves it cancelled with no reserved funds; so a
\* second cancel, sequential or concurrent, writes no further refund.
C30_CancelAtMostOnce ==
    /\ [](Cardinality(CancelRefunds(ledger)) <= 1)
    /\ [][\A p \in Procs :
            (req[p].op = "cancel" /\ req'[p].op # "cancel") =>
                \/ /\ ledger' = ledger
                   /\ balance' = balance
                   /\ campaign' = campaign
                \/ /\ campaign.status \in {"active", "paused"}
                   /\ campaign' = [status |-> "cancelled", reserved_funds |-> 0]]_vars

====
